---- MODULE Spec2Model ----
(***************************************************************************)
(* A model of mace-jax: the GeneralMACE layer stack (modules/models.py),   *)
(* the MACE energy/force driver (modules/models.py) and the gin glue       *)
(* (tools/gin_model.py, tools/gin_functions.py).                           *)
(*                                                                         *)
(* Conventions of the model.                                               *)
(*  - Space is one-dimensional: a position, an edge vector and a force are *)
(*    a single coordinate instead of three.                                *)
(*  - Real numbers (features, weights, energies) are elements of the prime *)
(*    field 0..Prime-1: +, - , * and / are exact there, so every algebraic *)
(*    identity of the real computation is an identity of the model.        *)
(*    Positions and edge vectors stay integers, because the code takes     *)
(*    their norm and direction.                                            *)
(*  - A differentiable value is a dual number [v, d]: its value and its    *)
(*    derivative with respect to every node position; jax.grad of a total  *)
(*    is the d component of that total.                                    *)
(*  - Optional[T] is a sequence: <<>> is None, <<x>> is the value x.       *)
(*  - Node indices are 1-based; species indices are 0-based as in the code.*)
(***************************************************************************)
EXTENDS Integers, Sequences, FiniteSets, TLC

VARIABLES
    pc,            \* position of the program
    cfg,           \* keyword arguments given to the constructor
    inp,           \* arguments of GeneralMACE.__call__
    num_features,  \* GeneralMACE.num_features
    i,             \* loop index of GeneralMACE.__call__
    poly_order,    \* polynomial order tracker
    node_feats,    \* node features, one dual number per node
    outputs,       \* list of per-layer node outputs
    calls,         \* the blocks called so far, in call order, with their arguments
    result,        \* value returned by GeneralMACE.__call__
    batch,         \* the jraph.GraphsTuple given to MACE.__call__
    out,           \* what MACE.__call__ returned for batch
    locals,        \* the local values of that call of MACE.__call__
    gin,           \* what gin_model's model_ returned for batch
    ref,           \* what MACE.__call__ returned before batch was padded or translated
    how,           \* how batch was changed since ref: "none", "pad" or "translate"
    train_graphs,     \* gin_model.model: the calibration graphs, or None
    z_table,          \* gin_model.model: the table of the species observed, or None
    atomic_energies_, \* gin_model.model: atomic_energies, then the array it resolves to
    initialize_seed,  \* gin_model.model: the seed, or None
    params,           \* the parameters: of gin_model.model, reload and train
    error,            \* the exception that ended the call, or None
    path,             \* reload: the file to reload from, or None
    stored,           \* reload: the parameters pickled in that file
    kw,               \* train: its keyword arguments and loaders
    epoch,            \* train: the epoch the generator yielded last
    lowest_loss,      \* train: lowest validation loss so far
    patience_counter, \* train: evaluations without improvement
    log,              \* train: what was written and evaluated, in order
    argv,             \* parse_argv: the command line
    pos,              \* parse_argv: index of the next argument
    only_the_key,     \* parse_argv: the key waiting for its value, or None
    bindings          \* parse_argv: the calls made to gin, in order

macexVars == <<cfg, inp, num_features, i, poly_order, node_feats, outputs, calls,
               result, batch, out, locals, gin, ref, how>>
modelVars == <<train_graphs, z_table, atomic_energies_, initialize_seed, error>>
trainVars == <<path, stored, kw, epoch, lowest_loss, patience_counter, log>>
argvVars == <<argv, pos, only_the_key, bindings>>
toolVars == <<modelVars, params, trainVars, argvVars>>

vars == <<pc, macexVars, toolVars>>

\* no call of gin_model.model, reload, train or parse_argv has been made
ModelIdle ==
    /\ train_graphs = <<>> /\ z_table = <<>> /\ atomic_energies_ = <<>>
    /\ initialize_seed = <<>> /\ error = <<>>
TrainIdle ==
    /\ path = <<>> /\ stored = <<>> /\ kw = <<>> /\ epoch = 0
    /\ lowest_loss = 0 /\ patience_counter = 0 /\ log = <<>>
ArgvIdle == argv = <<>> /\ pos = 0 /\ only_the_key = <<>> /\ bindings = <<>>
ToolsIdle == ModelIdle /\ params = <<>> /\ TrainIdle /\ ArgvIdle

-----------------------------------------------------------------------------
(* Bounds of the model *)

MaxLayers == 3          \* num_interactions ranges over 1..MaxLayers
MaxIrreps == 2          \* hidden_irreps has at most MaxIrreps entries
MaxEdges == 2           \* an unpadded batch has at most MaxEdges edges

-----------------------------------------------------------------------------
(* Real arithmetic, in the prime field *)

Prime == 2 * 125 + 1

FAdd(a, b) == (a + b) % Prime
FSub(a, b) == (a - b) % Prime
FMul(a, b) == (a * b) % Prime
FInv(a) == CHOOSE z \in 1..(Prime - 1) : (a * z) % Prime = 1
FDiv(a, b) == FMul(a, FInv(b))
Half == FInv(2)

\* jnp.sqrt of a perfect square
Sqrt(a) == CHOOSE z \in 0..a : z * z = a

RECURSIVE SumSeq(_)
SumSeq(s) == IF s = <<>> THEN 0 ELSE FAdd(s[1], SumSeq(Tail(s)))

\* the sequence <<F(1), ..., F(n)>>, every entry computed once
RECURSIVE ArrayFrom(_, _, _)
ArrayFrom(k, F(_), n) == IF k > n THEN <<>> ELSE <<F(k)>> \o ArrayFrom(k + 1, F, n)
Array(n, F(_)) == ArrayFrom(1, F, n)

\* F applied to the value of v: v is computed once, however often F uses it
With(v, F(_)) == CHOOSE y \in {F(x) : x \in {v}} : TRUE

-----------------------------------------------------------------------------
(* Dual numbers: a value and its derivative with respect to each node     *)
(* position.  nd is the number of node positions.                          *)

DConst(x, nd) == [v |-> x % Prime, d |-> Array(nd, LAMBDA k : 0)]
DAdd(a, b) ==
    With(<<a, b>>, LAMBDA p :
        [v |-> FAdd(p[1].v, p[2].v),
         d |-> Array(Len(p[1].d), LAMBDA k : FAdd(p[1].d[k], p[2].d[k]))])
DMul(a, b) ==
    With(<<a, b>>, LAMBDA p :
        [v |-> FMul(p[1].v, p[2].v),
         d |-> Array(Len(p[1].d), LAMBDA k :
                   FAdd(FMul(p[1].v, p[2].d[k]), FMul(p[2].v, p[1].d[k])))])
DScale(c, a) ==
    With(<<c, a>>, LAMBDA p :
        [v |-> FMul(p[1], p[2].v),
         d |-> Array(Len(p[2].d), LAMBDA k : FMul(p[1], p[2].d[k]))])

RECURSIVE DPow(_, _)
DPow(a, k) == IF k = 1 THEN a ELSE DMul(a, DPow(a, k - 1))

RECURSIVE DSum(_, _)
DSum(s, nd) == IF s = <<>> THEN DConst(0, nd) ELSE DAdd(s[1], DSum(Tail(s), nd))

\* the subsequence of s at the indices k with Keep(k), in order
RECURSIVE SelectIdx(_, _, _)
SelectIdx(s, Keep(_), k) ==
    IF k > Len(s) THEN <<>>
    ELSE (IF Keep(k) THEN <<s[k]>> ELSE <<>>) \o SelectIdx(s, Keep, k + 1)

-----------------------------------------------------------------------------
(* Learned parameters: created once by init, read-only afterwards *)

W_embedding == <<1, 2>>                 \* node embedding, per species
W_skip == <<2, 3>>                      \* self-connection gate, per species
W_product(specie, k) == specie + k + 1  \* product-basis weight, per species and order
W_linear(layer) == layer + 2            \* linear readout of layer `layer`
W_mlp == <<3, 2>>                       \* the two linear maps of the nonlinear readout

-----------------------------------------------------------------------------
(* Blocks used by GeneralMACE *)

Sign(x) == IF x > 0 THEN 1 ELSE IF x < 0 THEN 0 - 1 ELSE 0
Abs(x) == IF x < 0 THEN 0 - x ELSE x

\* node_embedding(node_specie): a learned vector per species, constant in the positions
LinearNodeEmbeddingBlock(node_specie) ==
    Array(Len(node_specie), LAMBDA n :
        DConst(W_embedding[node_specie[n] + 1], Len(node_specie)))

\* safe_norm(vectors): the length of each edge vector; a vector of length zero gets
\* the nonzero length 1 instead, constant in the positions, so that the length can be
\* divided by
safe_norm(vectors) ==
    Array(Len(vectors), LAMBDA e :
        IF vectors[e].v = 0
        THEN [v |-> 1, d |-> Array(Len(vectors[e].d), LAMBDA k : 0)]
        ELSE [v |-> Abs(vectors[e].v),
              d |-> Array(Len(vectors[e].d), LAMBDA k :
                        Sign(vectors[e].v) * vectors[e].d[k])])

\* vectors / lengths, with the derivative of a quotient.  Both divisions are exact: a
\* length is the absolute value of its vector, or 1 where the vector is zero.
divide(vectors, lengths) ==
    Array(Len(vectors), LAMBDA e :
        [v |-> vectors[e].v \div lengths[e].v,
         d |-> Array(Len(vectors[e].d), LAMBDA k :
                   (vectors[e].d[k] * lengths[e].v - vectors[e].v * lengths[e].d[k])
                       \div (lengths[e].v * lengths[e].v))])

RECURSIVE SumPowers(_, _, _)
\* 1 + x + ... + x^lmax of a dual number x
SumPowers(x, lmax, nd) ==
    IF lmax = 0 THEN DConst(1, nd) ELSE DAdd(DPow(x, lmax), SumPowers(x, lmax - 1, nd))

\* e3nn.spherical_harmonics(sh_irreps, input, normalize=False): one component per
\* degree l <= lmax, homogeneous of degree l in the input, which is not normalized
\* again; the components are summed into one number per edge
spherical_harmonics(lmax, input) ==
    Array(Len(input), LAMBDA e : SumPowers(input[e], lmax, Len(input[e].d)))

\* radial_embedding(lengths): a basis of the length times an envelope that is zero
\* at and beyond r_max
RadialEmbeddingBlock(r_max, lengths) ==
    Array(Len(lengths), LAMBDA e :
        IF lengths[e].v >= r_max THEN DConst(0, Len(lengths[e].d))
        ELSE [v |-> ((r_max - lengths[e].v) * (r_max - lengths[e].v)) % Prime,
              d |-> Array(Len(lengths[e].d), LAMBDA k :
                        ((0 - 2) * (r_max - lengths[e].v) * lengths[e].d[k]) % Prime)])

\* inter(...)(node_specie, node_feats, edge_attrs, edge_feats, receivers, senders):
\* the message of an edge is its sender's features coupled with the edge's angular and
\* radial features; a node's new features are the sum over its incoming edges.  The
\* residual variant also returns a species-gated linear map of the previous features.
InteractionBlock(cls, node_specie, feats, edge_attrs, edge_feats, receivers, senders) ==
    LET nd == Len(node_specie)
        message(e) == DMul(DMul(edge_feats[e], edge_attrs[e]), feats[senders[e]])
    IN With(Array(Len(senders), LAMBDA e : message(e)), LAMBDA messages :
        [node_feats |->
            Array(nd, LAMBDA n :
                LET Keep(e) == receivers[e] = n
                IN With(SelectIdx(messages, Keep, 1), LAMBDA incoming :
                       DSum(incoming, nd))),
         sc |-> IF cls = "AgnosticResidualInteractionBlock"
                THEN <<Array(nd, LAMBDA n : DScale(W_skip[node_specie[n] + 1], feats[n]))>>
                ELSE <<>>])

RECURSIVE Polynomial(_, _, _)
Polynomial(x, specie, k) ==
    IF k = 1 THEN DScale(W_product(specie, 1), x)
    ELSE DAdd(DScale(W_product(specie, k), DPow(x, k)), Polynomial(x, specie, k - 1))

\* EquivariantProductBasisBlock(...)(node_feats, node_specie): the symmetrized
\* polynomial of orders 1..correlation of a node's features, with per-species weights
EquivariantProductBasisBlock(correlation, feats, node_specie) ==
    Array(Len(feats), LAMBDA n : Polynomial(feats[n], node_specie[n], correlation))

\* LinearReadoutBlock(output_irreps)(node_feats): one learned linear map
LinearReadoutBlock(layer, feats) ==
    Array(Len(feats), LAMBDA n : DScale(W_linear(layer), feats[n]))

\* gate, the callable given to the constructor as activation, applied to x.  The
\* callables of the model are the polynomials lambda y: g[1] + g[2]*y + g[3]*y*y;
\* jax.nn.silu, the default, is not a function of the field and is not among them.
gate(g, x) ==
    With(x, LAMBDA y :
        DAdd(DConst(g[1], Len(y.d)), DAdd(DScale(g[2], y), DScale(g[3], DMul(y, y)))))

\* NonLinearReadoutBlock(readout_mlp_irreps, output_irreps, activation)(node_feats):
\* linear map, activation, linear map
NonLinearReadoutBlock(activation, feats) ==
    Array(Len(feats), LAMBDA n :
        DScale(W_mlp[2], gate(activation, DScale(W_mlp[1], feats[n]))))

-----------------------------------------------------------------------------
(* GeneralMACE.__init__ *)

RECURSIVE count(_, _)
\* e3nn.Irreps.count(ir): the total multiplicity of ir
count(irreps, ir) ==
    IF irreps = <<>> THEN 0
    ELSE (IF irreps[1][2] = ir THEN irreps[1][1] ELSE 0) + count(Tail(irreps), ir)

\* mutant: num_features taken from the first entry, whatever its type
init_num_features_first(hidden_irreps) ==
    IF hidden_irreps = <<>> THEN 0 ELSE hidden_irreps[1][1]

\* self.num_features = hidden_irreps.count(e3nn.Irrep("0e"))
init_num_features(hidden_irreps) == count(hidden_irreps, "0e")

\* if not all(mul == self.num_features for mul, _ in hidden_irreps): raise ValueError
init_raises(hidden_irreps) ==
    ~ (\A k \in 1..Len(hidden_irreps) :
            hidden_irreps[k][1] = init_num_features(hidden_irreps))

-----------------------------------------------------------------------------
(* GeneralMACE.__call__: the pieces of one loop iteration *)

\* mutant: the two classes swapped
select_interaction_swapped(c, layer) ==
    IF layer = 0 THEN c.interaction_cls ELSE c.interaction_cls_first

\* which interaction class layer `layer` instantiates
select_interaction(c, layer) ==
    IF layer = 0 THEN c.interaction_cls_first ELSE c.interaction_cls

\* mutant: `if self.epsilon:` in place of `if self.epsilon is not None:`
scale_node_feats_truthy(c, feats) ==
    IF c.epsilon # <<>> /\ c.epsilon # <<0>>
    THEN Array(Len(feats), LAMBDA n : DScale(c.epsilon[1], feats[n]))
    ELSE Array(Len(feats), LAMBDA n : DScale(FInv(Sqrt(c.avg_num_neighbors)), feats[n]))

\* node_feats *= epsilon, or node_feats /= sqrt(avg_num_neighbors)
scale_node_feats(c, feats) ==
    IF c.epsilon # <<>>
    THEN Array(Len(feats), LAMBDA n : DScale(c.epsilon[1], feats[n]))
    ELSE Array(Len(feats), LAMBDA n : DScale(FInv(Sqrt(c.avg_num_neighbors)), feats[n]))

\* the event recorded for the scaling
scale_event(c, layer) ==
    IF c.epsilon # <<>>
    THEN [op |-> "scale", layer |-> layer, by |-> "epsilon", factor |-> c.epsilon[1]]
    ELSE [op |-> "scale", layer |-> layer, by |-> "sqrt_avg_num_neighbors",
          factor |-> Sqrt(c.avg_num_neighbors)]

\* mutant: max_ell added after the multiplication
new_poly_order_unparenthesised(c, old) ==
    IF c.max_poly_order = <<>>
    THEN c.correlation * old + c.max_ell
    ELSE c.correlation * old + c.max_poly_order[1]

\* new_poly_order, from the tracker's value before the layer
new_poly_order(c, old) ==
    IF c.max_poly_order = <<>>
    THEN c.correlation * (old + c.max_ell)
    ELSE c.correlation * old + c.max_poly_order[1]

\* the keyword arguments the product-basis block of a layer is built with
product_basis_event(layer, old, new) ==
    [op |-> "product_basis", layer |-> layer,
     max_poly_order |-> new, input_poly_order |-> old]

\* if sc is not None
adds_self_connection(sc) == sc # <<>>

\* if sc is not None: node_feats = node_feats + sc
add_self_connection(feats, sc) ==
    IF adds_self_connection(sc)
    THEN Array(Len(feats), LAMBDA n : DAdd(feats[n], sc[1][n]))
    ELSE feats

\* mutant: the bound of the comparison off by one
select_readout_off_by_one(c, layer) ==
    IF layer < c.num_interactions THEN "LinearReadoutBlock" ELSE "NonLinearReadoutBlock"

\* which readout layer `layer` uses
select_readout(c, layer) ==
    IF layer < c.num_interactions - 1 THEN "LinearReadoutBlock" ELSE "NonLinearReadoutBlock"

\* mutant: the new output put in front
append_output_front(outs, node_outputs) == <<node_outputs>> \o outs

\* outputs += [node_outputs]
append_output(outs, node_outputs) == Append(outs, node_outputs)

\* lengths, edge_attrs and edge_feats, computed once before the loop
edge_embeddings(c, a) ==
    With(safe_norm(a.vectors), LAMBDA lengths :
        [edge_attrs |-> spherical_harmonics(c.max_ell, divide(a.vectors, lengths)),
         edge_feats |-> RadialEmbeddingBlock(c.r_max, lengths)])

\* the state of the loop before its first iteration
EmbedState(a) ==
    [i |-> 0, poly_order |-> 0, node_feats |-> LinearNodeEmbeddingBlock(a.node_specie),
     outputs |-> <<>>, calls |-> <<>>]

\* one iteration of `for i in range(self.num_interactions)`
LayerBody(c, a, st) ==
    LET layer == st.i
        cls == select_interaction(c, layer)
        new == new_poly_order(c, st.poly_order)
        kind == select_readout(c, layer)
    IN With(edge_embeddings(c, a), LAMBDA edge :
       With(InteractionBlock(cls, a.node_specie, st.node_feats, edge.edge_attrs,
                             edge.edge_feats, a.receivers, a.senders), LAMBDA r :
       With(scale_node_feats(c, r.node_feats), LAMBDA scaled :
       With(EquivariantProductBasisBlock(c.correlation, scaled, a.node_specie), LAMBDA basis :
       With(add_self_connection(basis, r.sc), LAMBDA feats :
       With(IF kind = "LinearReadoutBlock"
            THEN LinearReadoutBlock(layer, feats)
            ELSE NonLinearReadoutBlock(c.gate, feats), LAMBDA node_outputs :
           [i |-> layer + 1, poly_order |-> new, node_feats |-> feats,
            outputs |-> append_output(st.outputs, node_outputs),
            calls |-> st.calls
                \o <<[op |-> "interaction", layer |-> layer, cls |-> cls,
                      returned_sc |-> r.sc # <<>>],
                     scale_event(c, layer),
                     product_basis_event(layer, st.poly_order, new)>>
                \o (IF adds_self_connection(r.sc)
                    THEN <<[op |-> "add_sc", layer |-> layer]>> ELSE <<>>)
                \o <<[op |-> "readout", layer |-> layer, kind |-> kind,
                      node_outputs |-> node_outputs]>>]))))))

\* e3nn.stack(outputs, axis=1): [n_nodes, num_interactions]
stack(outs, n_nodes) ==
    Array(n_nodes, LAMBDA n : Array(Len(outs), LAMBDA k : outs[k][n]))

RECURSIVE RunLayers(_, _, _)
RunLayers(c, a, st) ==
    IF st.i < c.num_interactions
    THEN With(LayerBody(c, a, st), LAMBDA next : RunLayers(c, a, next))
    ELSE st

\* GeneralMACE.__call__(vectors, node_specie, senders, receivers) as a function
GeneralMACE_call(c, a) ==
    With(EmbedState(a), LAMBDA st :
    With(RunLayers(c, a, st), LAMBDA final :
        stack(final.outputs, Len(a.node_specie))))

-----------------------------------------------------------------------------
(* jraph.GraphsTuple: n_node and n_edge per graph, nodes and edges stored graph   *)
(* after graph                                                                     *)

RECURSIVE IntSum(_, _)
\* the sum of the first k entries of a sequence of integers
IntSum(s, k) == IF k = 0 THEN 0 ELSE s[k] + IntSum(s, k - 1)

\* the graph that holds node n (edge e), from n_node (n_edge)
SegmentOf(counts, n) ==
    CHOOSE g \in 1..Len(counts) : IntSum(counts, g - 1) < n /\ n <= IntSum(counts, g)

\* positions as the differentiated argument: d positions[n] / d positions[k] = [n = k]
Positions(b) ==
    Array(Len(b.positions), LAMBDA n :
        [v |-> b.positions[n],
         d |-> Array(Len(b.positions), LAMBDA k : IF k = n THEN 1 ELSE 0)])

\* get_edge_relative_vectors: receiver position - sender position + shift * cell
get_edge_relative_vectors(positions, senders, receivers, shifts, cell, n_edge) ==
    Array(Len(senders), LAMBDA e :
        [v |-> positions[receivers[e]].v - positions[senders[e]].v
                 + shifts[e] * cell[SegmentOf(n_edge, e)],
         d |-> Array(Len(positions), LAMBDA k :
                   positions[receivers[e]].d[k] - positions[senders[e]].d[k])])

\* sum_nodes_of_the_same_graph(graph, node_energies): one sum per graph, over the
\* nodes that n_node assigns to it
sum_nodes_of_the_same_graph(b, values) ==
    Array(Len(b.n_node), LAMBDA g :
        LET Keep(n) == SegmentOf(b.n_node, n) = g
        IN With(SelectIdx(values, Keep, 1), LAMBDA own : SumSeq(own)))

\* AtomicEnergiesBlock(atomic_energies)(node_specie): the table entry of each species
AtomicEnergiesBlock(atomic_energies, node_specie) ==
    Array(Len(node_specie), LAMBDA n :
        DConst(atomic_energies[node_specie[n] + 1], Len(node_specie)))

\* ScaleShiftBlock(scale, shift)(x) = scale * x + shift
ScaleShiftBlock(scale, shift, x) ==
    With(x, LAMBDA y : DAdd(DScale(scale, y), DConst(shift, Len(y.d))))

-----------------------------------------------------------------------------
(* MACE.__call__ *)

\* mutant: the absolute position of the receiver instead of the relative vector
energy_fn_vectors_absolute(b, positions) ==
    With(positions, LAMBDA p : Array(Len(b.senders), LAMBDA e : p[b.receivers[e]]))

\* vectors = get_edge_relative_vectors(positions=positions, senders=graph.senders, ...)
energy_fn_vectors(b, positions) ==
    With(positions, LAMBDA p :
        get_edge_relative_vectors(p, b.senders, b.receivers, b.shifts, b.cell, b.n_edge))

\* node_energies = node_e0 + self.scale_shift(jnp.sum(contributions, axis=1))
energy_fn_node_energies(c, node_e0, contributions) ==
    Array(Len(node_e0), LAMBDA n :
        DAdd(node_e0[n],
             ScaleShiftBlock(c.atomic_inter_scale, c.atomic_inter_shift,
                             DSum(contributions[n], Len(node_e0)))))

\* energy_fn(positions): returns (total, node_energies); vectors and contributions are
\* its locals
energy_fn(c, b, positions) ==
    With(energy_fn_vectors(b, positions), LAMBDA vectors :
    With(AtomicEnergiesBlock(c.atomic_energies, b.species), LAMBDA node_e0 :
    With(GeneralMACE_call(c, [vectors |-> vectors, node_specie |-> b.species,
                              senders |-> b.senders, receivers |-> b.receivers]),
         LAMBDA contributions :
    With(energy_fn_node_energies(c, node_e0, contributions), LAMBDA node_energies :
        [total |-> DSum(node_energies, Len(b.species)), node_energies |-> node_energies,
         vectors |-> vectors, contributions |-> contributions]))))

\* mutant: the gradient returned without the sign change
MACE_call_plus_gradient(c, b) ==
    With(energy_fn(c, b, Positions(b)), LAMBDA e :
    With(Array(Len(b.species), LAMBDA n : e.node_energies[n].v), LAMBDA node_energies :
        [energy |-> sum_nodes_of_the_same_graph(b, node_energies),
         forces |-> e.total.d]))

\* mutant: every graph given the total over all nodes of the batch
MACE_call_total_per_graph(c, b) ==
    With(energy_fn(c, b, Positions(b)), LAMBDA e :
        [energy |-> Array(Len(b.n_node), LAMBDA g : e.total.v),
         forces |-> Array(Len(b.species), LAMBDA n : FSub(0, e.total.d[n]))])

\* MACE.__call__(graph): jax.grad of energy_fn at graph.nodes.positions, with the
\* node energies as auxiliary output
MACE_call(c, b) ==
    With(energy_fn(c, b, Positions(b)), LAMBDA e :
    With(Array(Len(b.species), LAMBDA n : e.node_energies[n].v), LAMBDA node_energies :
        [energy |-> sum_nodes_of_the_same_graph(b, node_energies),
         forces |-> Array(Len(b.species), LAMBDA n : FSub(0, e.total.d[n]))]))

-----------------------------------------------------------------------------
(* gin_model.model: model_ *)

\* the keyword-only parameters of GeneralMACE.__init__, and those without a default
GeneralMACE_parameters ==
    {"output_irreps", "r_max", "num_interactions", "hidden_irreps", "readout_mlp_irreps",
     "avg_num_neighbors", "num_species", "num_bessel", "num_deriv_in_zero",
     "num_deriv_in_one", "max_ell", "interaction_cls", "interaction_cls_first",
     "epsilon", "correlation", "max_poly_order", "gate"}
GeneralMACE_required ==
    {"output_irreps", "r_max", "num_interactions", "hidden_irreps", "readout_mlp_irreps",
     "avg_num_neighbors", "num_species"}

\* the named keyword-only parameters of MACE.__init__, which also takes **kwargs
MACE_parameters == {"atomic_inter_scale", "atomic_inter_shift", "atomic_energies"}
MACE_required == {"atomic_energies"}

\* GeneralMACE(**keywords) raises TypeError: a keyword it does not have, or a
\* parameter without default that is not given
GeneralMACE_init_raises(keywords) ==
    \/ ~ (keywords \subseteq GeneralMACE_parameters)
    \/ ~ (GeneralMACE_required \subseteq keywords)

\* MACE(**keywords) raises TypeError: atomic_energies is not given, or the call
\* GeneralMACE(output_irreps="0e", **kwargs) it makes raises (output_irreps given
\* twice included)
MACE_init_raises(keywords) ==
    \/ ~ (MACE_required \subseteq keywords)
    \/ "output_irreps" \in keywords
    \/ GeneralMACE_init_raises((keywords \ MACE_parameters) \cup {"output_irreps"})

\* what the name modules.MACE can be bound to: one of the two classes of models.py,
\* or a class that takes the keywords and the four arrays gin_model.py gives it and
\* returns the per-layer contributions of GeneralMACE.__call__
ModuleClasses == {"MACE", "GeneralMACE", "other"}

\* the keywords of modules.MACE(output_irreps="0e", **kwargs): kwargs is what the
\* caller of gin_model.model gave beyond its named parameters, updated with r_max,
\* avg_num_neighbors, num_interactions, avg_r_min, num_species, radial_basis and
\* radial_envelope
model_keywords(kwargs) ==
    {"output_irreps"} \cup kwargs
        \cup {"r_max", "avg_num_neighbors", "num_interactions", "avg_r_min",
              "num_species", "radial_basis", "radial_envelope"}

\* what the caller of gin_model.model gives beyond its named parameters
KwargsChoices ==
    {{"hidden_irreps", "readout_mlp_irreps"},
     {"hidden_irreps", "readout_mlp_irreps", "max_ell", "correlation", "gate"}}

\* mace = modules.MACE(output_irreps="0e", **kwargs) raises TypeError
model_mace_raises(cls, kwargs) ==
    IF cls = "GeneralMACE" THEN GeneralMACE_init_raises(model_keywords(kwargs))
    ELSE IF cls = "MACE" THEN MACE_init_raises(model_keywords(kwargs))
    ELSE FALSE

\* mutant: mean and std exchanged
model_node_energies_swapped(mean, std, atomic_energies, node_z, contributions) ==
    Array(Len(node_z), LAMBDA n :
        DAdd(DAdd(DConst(std, Len(node_z)),
                  DScale(mean, DSum(contributions[n], Len(node_z)))),
             DConst(atomic_energies[node_z[n] + 1], Len(node_z))))

\* node_energies = sum of the contributions; mean + std * node_energies;
\* node_energies += atomic_energies_[node_z]
model_node_energies(mean, std, atomic_energies, node_z, contributions) ==
    Array(Len(node_z), LAMBDA n :
        DAdd(DAdd(DConst(mean, Len(node_z)),
                  DScale(std, DSum(contributions[n], Len(node_z)))),
             DConst(atomic_energies[node_z[n] + 1], Len(node_z))))

\* model_(vectors, node_z, senders, receivers): the network is built, then it gives
\* the per-layer contributions, then the node energies.  MACE.__call__ takes one
\* graph, not four arrays.
model_(cls, kwargs, c, mean, std, atomic_energies, a) ==
    IF model_mace_raises(cls, kwargs) \/ cls = "MACE"
    THEN [cls |-> cls, error |-> <<"TypeError">>, node_energies |-> <<>>]
    ELSE With(a, LAMBDA args :
         With(GeneralMACE_call(c, args), LAMBDA contributions :
            [cls |-> cls, error |-> <<>>,
             node_energies |-> model_node_energies(mean, std, atomic_energies,
                                                   args.node_specie, contributions)]))

-----------------------------------------------------------------------------
(* Padding (jraph.pad_with_graphs) and its masks *)

Zeros(k) == Array(k, LAMBDA j : 0)

\* one padding graph appended: np nodes of species 0 at the origin, ne edges from the
\* first padding node to itself
pad_with_graphs(b, np, ne) ==
    LET first == Len(b.species) + 1
    IN [n_node |-> Append(b.n_node, np), n_edge |-> Append(b.n_edge, ne),
        species |-> b.species \o Zeros(np), positions |-> b.positions \o Zeros(np),
        senders |-> b.senders \o Array(ne, LAMBDA j : first),
        receivers |-> b.receivers \o Array(ne, LAMBDA j : first),
        shifts |-> b.shifts \o Zeros(ne), cell |-> Append(b.cell, 0)]

\* jraph.get_node_padding_mask(graph): the nodes that are not in the padding graph
get_node_padding_mask(b) ==
    Array(Len(b.species), LAMBDA n : n <= Len(b.species) - b.n_node[Len(b.n_node)])

\* jraph.get_graph_padding_mask(graph): the graphs but the padding graph
get_graph_padding_mask(b) == Array(Len(b.n_node), LAMBDA g : g < Len(b.n_node))

\* out["energy"][graph_mask], out["forces"][node_mask]
checks_masked(o, b) ==
    LET KeepGraph(g) == get_graph_padding_mask(b)[g]
        KeepNode(n) == get_node_padding_mask(b)[n]
    IN [energy |-> SelectIdx(o.energy, KeepGraph, 1),
        forces |-> SelectIdx(o.forces, KeepNode, 1)]

-----------------------------------------------------------------------------
(* The inputs the model draws *)

Species == {0, 1}
num_species == Cardinality(Species)
InteractionClasses == {"AgnosticInteractionBlock", "AgnosticResidualInteractionBlock"}
Irreps == {"0e", "1o"}
Multiplicities == {1, 2}
HiddenIrreps == UNION {[1..k -> Multiplicities \X Irreps] : k \in 0..MaxIrreps}

\* keyword arguments of GeneralMACE.__init__ (and of MACE.__init__)
BaseConfig ==
    [num_interactions |-> 2, correlation |-> 2, max_ell |-> 1, max_poly_order |-> <<>>,
     epsilon |-> <<Half>>, avg_num_neighbors |-> 4,
     interaction_cls |-> "AgnosticResidualInteractionBlock",
     interaction_cls_first |-> "AgnosticInteractionBlock",
     hidden_irreps |-> <<<<2, "0e">>, <<2, "1o">>>>, r_max |-> 3,
     gate |-> <<0, 1, 1>>,
     num_species |-> num_species,
     atomic_inter_scale |-> 1, atomic_inter_shift |-> 0, atomic_energies |-> <<3, 5>>]

\* the callables given as gate: y + y*y, zero at zero as silu is, and 1 + y*y
Gates == {<<0, 1, 1>>, <<1, 0, 1>>}

Configs ==
    {[BaseConfig EXCEPT !.num_interactions = n, !.correlation = co, !.max_ell = l,
                           !.max_poly_order = m, !.epsilon = ep,
                           !.interaction_cls = ic, !.interaction_cls_first = icf,
                           !.hidden_irreps = h, !.gate = g] :
        g \in Gates, n \in 1..MaxLayers, co \in {1, 2}, l \in {1, 2}, m \in {<<>>, <<1>>},
        ep \in {<<>>, <<0>>, <<Half>>}, ic \in InteractionClasses,
        icf \in InteractionClasses, h \in HiddenIrreps}

\* a vector that is not differentiated: an argument of GeneralMACE.__call__
Plain(x, nd) == [v |-> x, d |-> Array(nd, LAMBDA k : 0)]

\* arguments of GeneralMACE.__call__: two atoms of different species, bonded both ways
CallInputs ==
    {[vectors |-> <<Plain(x, 2), Plain(0 - x, 2)>>, node_specie |-> <<0, 1>>,
      senders |-> <<1, 2>>, receivers |-> <<2, 1>>] : x \in {1, 2}}

NoInput == [vectors |-> <<>>, node_specie |-> <<>>, senders |-> <<>>, receivers |-> <<>>]
NoBatch == [n_node |-> <<>>, n_edge |-> <<>>, species |-> <<>>, positions |-> <<>>,
            senders |-> <<>>, receivers |-> <<>>, shifts |-> <<>>, cell |-> <<>>]

-----------------------------------------------------------------------------
(* The forward pass of GeneralMACE, one loop iteration per step *)

Init ==
    /\ pc = "new"
    /\ cfg \in Configs
    /\ inp = NoInput
    /\ num_features = 0
    /\ i = 0
    /\ poly_order = 0
    /\ node_feats = <<>>
    /\ outputs = <<>>
    /\ calls = <<>>
    /\ result = <<>>
    /\ batch = NoBatch
    /\ out = <<>>
    /\ locals = <<>>
    /\ gin = <<>>
    /\ ref = <<>>
    /\ how = "none"
    /\ ToolsIdle

\* GeneralMACE.__init__
Construct ==
    /\ pc = "new"
    /\ num_features' = init_num_features(cfg.hidden_irreps)
    /\ pc' = IF init_raises(cfg.hidden_irreps) THEN "raised" ELSE "constructed"
    /\ UNCHANGED <<cfg, inp, i, poly_order, node_feats, outputs, calls, result,
                   batch, out, locals, gin, ref, how>>
    /\ UNCHANGED toolVars

\* GeneralMACE.__call__ up to the loop
Call ==
    /\ pc = "constructed"
    /\ \E a \in CallInputs :
        \E st \in {EmbedState(a)} :
            /\ inp' = a
            /\ i' = st.i
            /\ poly_order' = st.poly_order
            /\ node_feats' = st.node_feats
            /\ outputs' = st.outputs
            /\ calls' = st.calls
    /\ pc' = "loop"
    /\ UNCHANGED <<cfg, num_features, result, batch, out, locals, gin, ref, how>>
    /\ UNCHANGED toolVars

\* one iteration of the loop over the layers
Layer ==
    /\ pc = "loop"
    /\ i < cfg.num_interactions
    /\ \E st \in {LayerBody(cfg, inp, [i |-> i, poly_order |-> poly_order,
                                       node_feats |-> node_feats, outputs |-> outputs,
                                       calls |-> calls])} :
          /\ i' = st.i
          /\ poly_order' = st.poly_order
          /\ node_feats' = st.node_feats
          /\ outputs' = st.outputs
          /\ calls' = st.calls
    /\ UNCHANGED <<pc, cfg, inp, num_features, result, batch, out, locals, gin, ref, how>>
    /\ UNCHANGED toolVars

\* return e3nn.stack(outputs, axis=1)
Return ==
    /\ pc = "loop"
    /\ i >= cfg.num_interactions
    /\ result' = stack(outputs, Len(inp.node_specie))
    /\ pc' = "returned"
    /\ UNCHANGED <<cfg, inp, num_features, i, poly_order, node_feats, outputs, calls,
                   batch, out, locals, gin, ref, how>>
    /\ UNCHANGED toolVars

Next == Construct \/ Call \/ Layer \/ Return

Spec == Init /\ [][Next]_vars

-----------------------------------------------------------------------------
(* Properties of the forward pass *)

Started == pc \in {"loop", "returned"}
IsProductBasis(ev) == ev.op = "product_basis"
IsReadout(ev) == ev.op = "readout"
IsInteraction(ev) == ev.op = "interaction"
IsAddSc(ev) == ev.op = "add_sc"
ProductBasisCalls == SelectSeq(calls, IsProductBasis)
ReadoutCalls == SelectSeq(calls, IsReadout)
InteractionCalls == SelectSeq(calls, IsInteraction)
LayersAddingSc == {calls[k].layer : k \in {j \in 1..Len(calls) : IsAddSc(calls[j])}}

\* C1: the polynomial-order tracker starts at 0; at every layer it advances to
\* correlation * (old + max_ell) when max_poly_order is None, and to
\* correlation * old + max_poly_order otherwise; the layer's product-basis block is
\* built with input_poly_order = old and max_poly_order = new, and the next layer
\* starts from new.
C1_PolyOrderTracker ==
    Started =>
        /\ Len(ProductBasisCalls) = i
        /\ \A k \in 1..Len(ProductBasisCalls) :
            LET old == IF k = 1 THEN 0 ELSE ProductBasisCalls[k - 1].max_poly_order
                new == IF cfg.max_poly_order = <<>>
                       THEN cfg.correlation * (old + cfg.max_ell)
                       ELSE cfg.correlation * old + cfg.max_poly_order[1]
            IN /\ ProductBasisCalls[k].layer = k - 1
               /\ ProductBasisCalls[k].input_poly_order = old
               /\ ProductBasisCalls[k].max_poly_order = new
        /\ poly_order = IF i = 0 THEN 0 ELSE ProductBasisCalls[i].max_poly_order

\* three layers of correlation 2 with max_ell = 1 and no cap: 0 -> 2 -> 6 -> 14
C1_Witness ==
    /\ pc = "returned" /\ i = 3
    /\ cfg.max_poly_order = <<>> /\ cfg.correlation = 2 /\ cfg.max_ell = 1
    /\ poly_order = 14
    /\ ProductBasisCalls[3].input_poly_order = 6

\* C4: with N = num_interactions layers, the linear readout is used at every layer
\* index below N-1 and the nonlinear readout at layer N-1 and nowhere else; with N = 1
\* no linear readout is created.
C4_ReadoutPerLayer ==
    Started =>
        /\ Len(ReadoutCalls) = i
        /\ \A k \in 1..Len(ReadoutCalls) :
            /\ ReadoutCalls[k].layer = k - 1
            /\ (k - 1 < cfg.num_interactions - 1
                    => ReadoutCalls[k].kind = "LinearReadoutBlock")
            /\ (k - 1 = cfg.num_interactions - 1
                    => ReadoutCalls[k].kind = "NonLinearReadoutBlock")
        /\ (pc = "returned" =>
                /\ Len(ReadoutCalls) = cfg.num_interactions
                /\ Cardinality({k \in 1..Len(ReadoutCalls) :
                        ReadoutCalls[k].kind = "NonLinearReadoutBlock"}) = 1
                /\ Cardinality({k \in 1..Len(ReadoutCalls) :
                        ReadoutCalls[k].kind = "LinearReadoutBlock"})
                     = cfg.num_interactions - 1)

\* a single layer: its readout is the nonlinear one
C4_Witness ==
    /\ pc = "returned" /\ cfg.num_interactions = 1
    /\ Len(ReadoutCalls) = 1
    /\ ReadoutCalls[1].kind = "NonLinearReadoutBlock"

\* C5: layer 0 uses interaction_cls_first and every later layer interaction_cls,
\* whatever the inputs; a self-connection is added in a layer exactly when that
\* layer's interaction returned one, so with the default classes layer 0 adds none
\* and every later layer adds one.
C5_InteractionVariant ==
    Started =>
        /\ Len(InteractionCalls) = i
        /\ \A k \in 1..Len(InteractionCalls) :
            /\ InteractionCalls[k].layer = k - 1
            /\ InteractionCalls[k].cls =
                 IF k = 1 THEN cfg.interaction_cls_first ELSE cfg.interaction_cls
            /\ (k - 1 \in LayersAddingSc) = InteractionCalls[k].returned_sc
            /\ InteractionCalls[k].returned_sc =
                 (InteractionCalls[k].cls = "AgnosticResidualInteractionBlock")
        /\ (/\ cfg.interaction_cls_first = BaseConfig.interaction_cls_first
            /\ cfg.interaction_cls = BaseConfig.interaction_cls)
               => LayersAddingSc = 1..(i - 1)

\* the default classes, three layers: the self-connection is added in layers 1 and 2
C5_Witness ==
    /\ pc = "returned" /\ i = 3
    /\ cfg.interaction_cls_first = "AgnosticInteractionBlock"
    /\ cfg.interaction_cls = "AgnosticResidualInteractionBlock"
    /\ LayersAddingSc = {1, 2}

\* C6: the value returned holds, for every node, exactly num_interactions entries in
\* layer order: entry k is the readout of layer k, none dropped, doubled or moved.
C6_OutputsInLayerOrder ==
    pc = "returned" =>
        /\ Len(result) = Len(inp.node_specie)
        /\ \A n \in 1..Len(result) :
            /\ Len(result[n]) = cfg.num_interactions
            /\ \A k \in 1..cfg.num_interactions :
                /\ ReadoutCalls[k].layer = k - 1
                /\ result[n][k] = ReadoutCalls[k].node_outputs[n]

\* three layers whose readouts differ from one another at node 1
C6_Witness ==
    /\ pc = "returned" /\ cfg.num_interactions = 3
    /\ Len(result[1]) = 3
    /\ result[1][1] # result[1][2] /\ result[1][2] # result[1][3]
    /\ result[1][1] # result[1][3]

\* the operations of layer k, in the order they ran
OpsOfLayer(k) ==
    LET InLayer(ev) == ev.layer = k
        evs == SelectSeq(calls, InLayer)
    IN [j \in 1..Len(evs) |-> evs[j].op]

\* the scaling events of layer k
ScalesOfLayer(k) ==
    LET IsScale(ev) == ev.op = "scale" /\ ev.layer = k
    IN SelectSeq(calls, IsScale)

\* the factor the configuration asks for
ConfiguredFactor ==
    IF cfg.epsilon # <<>> THEN cfg.epsilon[1] ELSE FInv(Sqrt(cfg.avg_num_neighbors))

\* the trace of every layer that ran: one interaction, one scaling, the product
\* basis, the self-connection addition when there is one, the readout
LayerTraceInOrder ==
    \A k \in 0..(i - 1) :
        /\ OpsOfLayer(k) =
              IF k \in LayersAddingSc
              THEN <<"interaction", "scale", "product_basis", "add_sc", "readout">>
              ELSE <<"interaction", "scale", "product_basis", "readout">>
        /\ Len(ScalesOfLayer(k)) = 1
        /\ ScalesOfLayer(k)[1].by =
              (IF cfg.epsilon # <<>> THEN "epsilon" ELSE "sqrt_avg_num_neighbors")
        /\ ScalesOfLayer(k)[1].factor =
              (IF cfg.epsilon # <<>> THEN cfg.epsilon[1] ELSE Sqrt(cfg.avg_num_neighbors))

\* the features a layer leaves, from the features it found: the interaction output
\* times the configured factor, through the product basis, plus the self-connection
\* as the interaction returned it
LayerValueInOrder ==
    LET cls == IF i = 0 THEN cfg.interaction_cls_first ELSE cfg.interaction_cls
        edge == edge_embeddings(cfg, inp)
        r == InteractionBlock(cls, inp.node_specie, node_feats, edge.edge_attrs,
                              edge.edge_feats, inp.receivers, inp.senders)
        scaled == [n \in 1..Len(r.node_feats) |->
                      DScale(ConfiguredFactor, r.node_feats[n])]
        basis == EquivariantProductBasisBlock(cfg.correlation, scaled, inp.node_specie)
    IN \A n \in 1..Len(inp.node_specie) :
          node_feats'[n] = IF r.sc # <<>> THEN DAdd(basis[n], r.sc[1][n]) ELSE basis[n]

\* C14: in every layer the steps run in the order interaction, scaling, product
\* basis, self-connection addition, readout; exactly one scaling is applied to the
\* interaction output, by epsilon when epsilon is not None (0 included) and by
\* 1/sqrt(avg_num_neighbors) otherwise, the same in layers with and without a
\* self-connection; the self-connection is added unscaled after the product basis.
C14_LayerStepOrder ==
    [][/\ Started' => LayerTraceInOrder'
       /\ (pc = "loop" /\ i' = i + 1) => LayerValueInOrder]_vars

\* epsilon = 0 and three residual layers: the scaled interaction output is zero in
\* every layer, and the features a layer leaves are the unscaled self-connection
C14_Witness ==
    /\ pc = "returned" /\ i = 3
    /\ cfg.epsilon = <<0>>
    /\ LayersAddingSc = {0, 1, 2}
    /\ \E n \in 1..Len(node_feats) : node_feats[n].v # 0

AllSameMultiplicity(h) == \A j, k \in 1..Len(h) : h[j][1] = h[k][1]
ScalarEntries(h) == {k \in 1..Len(h) : h[k][2] = "0e"}

\* C10 as stated: the constructor raises exactly when the entries of hidden_irreps do
\* not all have the same multiplicity, and an accepted signature has num_features
\* equal to the common multiplicity.
C10_RaisesIffMultiplicitiesDiffer ==
    pc # "new" =>
        /\ (pc = "raised") = ~ AllSameMultiplicity(cfg.hidden_irreps)
        /\ (pc # "raised" /\ cfg.hidden_irreps # <<>>
                => num_features = cfg.hidden_irreps[1][1])

\* C10 as amended: the constructor raises, before any forward evaluation, exactly
\* when some entry's multiplicity differs from the total multiplicity of the 0e
\* entries: different multiplicities always raise, and a non-empty signature of one
\* common multiplicity is accepted exactly when it lists 0e once, with num_features
\* equal to that multiplicity.
C10_RaisesIffNotScalarMultiplicity ==
    pc # "new" =>
        /\ (pc = "raised") =
             ~ (\/ cfg.hidden_irreps = <<>>
                \/ /\ AllSameMultiplicity(cfg.hidden_irreps)
                   /\ Cardinality(ScalarEntries(cfg.hidden_irreps)) = 1)
        /\ (~ AllSameMultiplicity(cfg.hidden_irreps) => pc = "raised")
        /\ (pc = "raised" => calls = <<>> /\ inp = NoInput /\ result = <<>>)
        /\ (pc # "raised" /\ cfg.hidden_irreps # <<>>
                => num_features = cfg.hidden_irreps[1][1])
        /\ (pc # "raised" /\ cfg.hidden_irreps = <<>> => num_features = 0)

\* 2x1o + 2x0e is accepted with 2 features
C10_Witness ==
    /\ pc = "constructed"
    /\ cfg.hidden_irreps = <<<<2, "1o">>, <<2, "0e">>>>
    /\ num_features = 2

-----------------------------------------------------------------------------
(* The batches and configurations of the energy driver *)

NodeCounts == {<<1>>, <<2>>, <<2, 1>>}
PositionValues == {0, 1}
PadNodes == {1, 2}          \* the padding graph has one or two nodes
Translations == {0 - 1, 2}

\* the number of nodes of a batch with node counts nn
NumNodes(nn) == IntSum(nn, Len(nn))

\* an edge <<s, r, k>> joins two nodes of one graph (k = 0) or a node and its own
\* periodic image (k = 1)
EdgeCandidates(nn) ==
    {ed \in (1..NumNodes(nn)) \X (1..NumNodes(nn)) \X {0, 1} :
        /\ SegmentOf(nn, ed[1]) = SegmentOf(nn, ed[2])
        /\ (ed[1] = ed[2]) <=> (ed[3] = 1)}

EdgeKey(ed) == ed[1] * 100 + ed[2] * 10 + ed[3]

RECURSIVE SortEdges(_)
\* the edges of a set, graph after graph
SortEdges(E) ==
    IF E = {} THEN <<>>
    ELSE LET m == CHOOSE ed \in E : \A o \in E : EdgeKey(ed) <= EdgeKey(o)
         IN <<m>> \o SortEdges(E \ {m})

MakeBatch(nn, sp, ps, E) ==
    LET es == SortEdges(E)
    IN [n_node |-> nn,
        n_edge |-> Array(Len(nn), LAMBDA g :
                       Cardinality({ed \in E : SegmentOf(nn, ed[1]) = g})),
        species |-> Array(NumNodes(nn), LAMBDA n : sp[n]),
        positions |-> Array(NumNodes(nn), LAMBDA n : ps[n]),
        senders |-> Array(Len(es), LAMBDA e : es[e][1]),
        receivers |-> Array(Len(es), LAMBDA e : es[e][2]),
        shifts |-> Array(Len(es), LAMBDA e : es[e][3]),
        cell |-> Array(Len(nn), LAMBDA g : 2)]

\* batches of one structure, and of two where the second is a single atom of
\* species 0 at the origin
Batches ==
    UNION {{MakeBatch(nn, sp, ps, E) :
                sp \in {f \in [1..NumNodes(nn) -> Species] :
                            Len(nn) > 1 => f[NumNodes(nn)] = 0},
                ps \in {f \in [1..NumNodes(nn) -> PositionValues] :
                            Len(nn) > 1 => f[NumNodes(nn)] = 0},
                E \in {X \in SUBSET EdgeCandidates(nn) : Cardinality(X) <= MaxEdges}} :
           nn \in NodeCounts}

EnergyConfigs ==
    {[BaseConfig EXCEPT !.num_interactions = n, !.atomic_inter_scale = sc,
                           !.atomic_inter_shift = sh] :
        n \in {1, MaxLayers}, sc \in {1, 2}, sh \in {0, 1}}
        \cup {[BaseConfig EXCEPT !.num_interactions = n, !.atomic_inter_scale = 2,
                                  !.atomic_inter_shift = 1, !.gate = g] :
                 n \in {1, MaxLayers}, g \in Gates}

\* the arguments model_ is applied to for a batch
ModelInput(b) ==
    [vectors |-> energy_fn_vectors(b, Positions(b)), node_specie |-> b.species,
     senders |-> b.senders, receivers |-> b.receivers]

-----------------------------------------------------------------------------
(* The energy driver: evaluate a batch, pad or translate it, evaluate again *)

InitEnergy ==
    /\ pc = "ready"
    /\ cfg \in EnergyConfigs
    /\ batch \in Batches
    /\ inp = NoInput
    /\ num_features = init_num_features(cfg.hidden_irreps)
    /\ i = 0
    /\ poly_order = 0
    /\ node_feats = <<>>
    /\ outputs = <<>>
    /\ calls = <<>>
    /\ result = <<>>
    /\ out = <<>>
    /\ locals = <<>>
    /\ gin = <<>>
    /\ ref = <<>>
    /\ how = "none"
    /\ ToolsIdle

\* MACE.__call__(graph)
Evaluate ==
    /\ pc = "ready"
    /\ out' = MACE_call(cfg, batch)
    /\ locals' = energy_fn(cfg, batch, Positions(batch))
    /\ pc' = "evaluated"
    /\ UNCHANGED <<cfg, inp, num_features, i, poly_order, node_feats, outputs, calls,
                   result, batch, gin, ref, how>>
    /\ UNCHANGED toolVars

\* gin_model's model_ on the same graph, with std = scale and mean = shift
Apply ==
    /\ pc = "evaluated"
    /\ how = "none"
    /\ \E cls \in ModuleClasses, kwargs \in KwargsChoices :
        gin' = model_(cls, kwargs, cfg, cfg.atomic_inter_shift, cfg.atomic_inter_scale,
                      cfg.atomic_energies, ModelInput(batch))
    /\ pc' = "applied"
    /\ UNCHANGED <<cfg, inp, num_features, i, poly_order, node_feats, outputs, calls,
                   result, batch, out, locals, ref, how>>
    /\ UNCHANGED toolVars

\* the batch is padded with one padding graph
Pad ==
    /\ pc = "evaluated"
    /\ how = "none"
    /\ \E np \in PadNodes, ne \in {0, 1} : batch' = pad_with_graphs(batch, np, ne)
    /\ ref' = [out |-> out, locals |-> locals, batch |-> batch]
    /\ how' = "pad"
    /\ pc' = "ready"
    /\ UNCHANGED <<cfg, inp, num_features, i, poly_order, node_feats, outputs, calls,
                   result, out, locals, gin>>
    /\ UNCHANGED toolVars

\* every position is moved by the same vector
Translate ==
    /\ pc = "evaluated"
    /\ how = "none"
    /\ \E t \in Translations :
        batch' = [batch EXCEPT !.positions =
                     Array(Len(batch.positions), LAMBDA n : batch.positions[n] + t)]
    /\ ref' = [out |-> out, locals |-> locals, batch |-> batch]
    /\ how' = "translate"
    /\ pc' = "ready"
    /\ UNCHANGED <<cfg, inp, num_features, i, poly_order, node_feats, outputs, calls,
                   result, out, locals, gin>>
    /\ UNCHANGED toolVars

NextEnergy == Evaluate \/ Apply \/ Pad \/ Translate

SpecEnergy == InitEnergy /\ [][NextEnergy]_vars

-----------------------------------------------------------------------------
(* Properties of the energy driver *)

Evaluated == pc \in {"evaluated", "applied"}
Nodes == 1..Len(batch.species)
AtomicEnergy(n) == cfg.atomic_energies[batch.species[n] + 1]
NodeEnergy(n) == locals.node_energies[n].v
\* the sum over the layers of the readout contributions of node n
ContributionSum(n) ==
    SumSeq(Array(Len(locals.contributions[n]), LAMBDA k : locals.contributions[n][k].v))
\* a node with no incident edge
Isolated(n) ==
    \A e \in 1..Len(batch.senders) : batch.senders[e] # n /\ batch.receivers[e] # n
\* the nodes of graph g
NodesOf(b, g) ==
    {n \in 1..Len(b.species) :
        IntSum(b.n_node, g - 1) < n /\ n <= IntSum(b.n_node, g)}

RECURSIVE SumOver(_, _)
\* the sum of f over a finite set of indices
SumOver(f, S) ==
    IF S = {} THEN 0
    ELSE LET x == CHOOSE y \in S : TRUE IN FAdd(f[x], SumOver(f, S \ {x}))

\* C2: the per-node energy is atomic_energies[species] + shift + scale * (sum over the
\* layers of the node's contributions), for every scale and shift, in MACE.__call__
\* and, wherever model_ gets contributions from modules.MACE, in gin_model's model_
\* (with std as scale and mean as shift), so both give the same energy from the same
\* contributions.
C2_NodeEnergyIsAffine ==
    pc = "applied" =>
        \A n \in Nodes :
            LET expected == FAdd(AtomicEnergy(n),
                                 FAdd(cfg.atomic_inter_shift,
                                      FMul(cfg.atomic_inter_scale, ContributionSum(n))))
            IN /\ Len(locals.contributions[n]) = cfg.num_interactions
               /\ NodeEnergy(n) = expected
               /\ gin.error = <<>> =>
                    /\ gin.node_energies[n].v = expected
                    /\ gin.node_energies[n] = locals.node_energies[n]

\* three layers, scale 2 and shift 1: model_ has returned the energy of a node whose
\* contributions do not sum to zero
C2_Witness ==
    /\ pc = "applied"
    /\ gin.error = <<>>
    /\ cfg.num_interactions > 1 /\ cfg.atomic_inter_shift = 1 /\ cfg.atomic_inter_scale = 2
    /\ \E n \in Nodes :
        /\ ContributionSum(n) # 0
        /\ gin.node_energies[n].v = NodeEnergy(n)
        /\ NodeEnergy(n) # FAdd(AtomicEnergy(n), ContributionSum(n))

\* C3: a node with no incident edge has an energy equal to the atomic energy of its
\* species, whatever scale, shift and number of layers are.
C3_IsolatedEnergyIsAtomicEnergy ==
    Evaluated =>
        \A n \in Nodes : Isolated(n) => NodeEnergy(n) = AtomicEnergy(n)

\* C7: one energy functional: the total that is differentiated is the sum of the node
\* energies returned beside it, a structure's energy is the sum of those node
\* energies over exactly its own nodes, and the forces are the negated gradient.
C7_SingleEnergyFunctional ==
    Evaluated =>
        LET values == Array(Len(batch.species), LAMBDA n : NodeEnergy(n))
        IN /\ locals.total.v = SumOver(values, Nodes)
           /\ Len(out.energy) = Len(batch.n_node)
           /\ \A g \in 1..Len(batch.n_node) :
                out.energy[g] = SumOver(values, NodesOf(batch, g))
           /\ Len(out.forces) = Len(batch.species)
           /\ \A n \in Nodes :
                /\ FAdd(out.forces[n], locals.total.d[n]) = 0
                /\ locals.total.d[n] =
                     SumOver(Array(Len(batch.species),
                                   LAMBDA m : locals.node_energies[m].d[n]), Nodes)

\* two structures of different energy and a node with a force on it
C7_Witness ==
    /\ Evaluated /\ how = "none"
    /\ Len(batch.n_node) = 2
    /\ out.energy[1] # out.energy[2]
    /\ \E n \in Nodes : out.forces[n] # 0

\* C8: after padding nodes, padding edges and their padding graph are appended, the
\* energy of every unpadded structure and the force on every unpadded node are what
\* they were, and so is what the masks of `checks` select.  No padding edge aggregates
\* into a real node: the energy of every real node is what it was and does not depend
\* on the position of a padding node.  No padding node counts toward a real
\* structure: its energy is the sum over the nodes it had.
C8_PaddingInsensitive ==
    (Evaluated /\ how = "pad") =>
        LET real == 1..Len(ref.batch.species)
            values == Array(Len(batch.species), LAMBDA n : NodeEnergy(n))
        IN /\ \A g \in 1..Len(ref.batch.n_node) : out.energy[g] = ref.out.energy[g]
           /\ \A n \in real : out.forces[n] = ref.out.forces[n]
           /\ checks_masked(out, batch) = ref.out
           /\ \A n \in real :
                /\ NodeEnergy(n) = ref.locals.node_energies[n].v
                /\ \A k \in Nodes :
                     locals.node_energies[n].d[k] =
                         IF k \in real THEN ref.locals.node_energies[n].d[k] ELSE 0
           /\ \A g \in 1..Len(ref.batch.n_node) :
                out.energy[g] = SumOver(values, NodesOf(ref.batch, g))

\* two padding nodes and a padding edge of length zero appended to a batch with a
\* force in it; the edge contributes to its padding node, and the padding graph has
\* an energy of its own
C8_Witness ==
    /\ Evaluated /\ how = "pad"
    /\ Len(batch.species) = Len(ref.batch.species) + 2
    /\ Len(batch.senders) = Len(ref.batch.senders) + 1
    /\ locals.vectors[Len(batch.senders)].v = 0
    /\ ContributionSum(Len(ref.batch.species) + 1) # 0
    /\ out.energy[Len(batch.n_node)] # 0
    /\ \E n \in 1..Len(ref.batch.species) : out.forces[n] # 0 /\ out.forces[n] = ref.out.forces[n]

\* C9: moving every position by the same vector leaves the relative vectors, every
\* node energy (with its gradient), every structure energy and every force unchanged.
C9_TranslationInvariant ==
    (Evaluated /\ how = "translate") =>
        /\ batch.positions # ref.batch.positions
        /\ locals.vectors = ref.locals.vectors
        /\ locals.node_energies = ref.locals.node_energies
        /\ out.energy = ref.out.energy
        /\ out.forces = ref.out.forces

\* a translated batch with an edge across a periodic boundary and a force
C9_Witness ==
    /\ Evaluated /\ how = "translate"
    /\ \E n \in Nodes : batch.positions[n] = ref.batch.positions[n] + 2
    /\ \E e \in 1..Len(batch.senders) : batch.shifts[e] # 0 /\ locals.vectors[e].v # 0
    /\ \E n \in Nodes : out.forces[n] # 0 /\ out.forces[n] = ref.out.forces[n]

-----------------------------------------------------------------------------
(* gin_model.model: the table of observed species, the atomic energies, the    *)
(* check of num_species, the initialization on a template graph                *)

MaxGraphs == 2          \* train_graphs holds at most MaxGraphs graphs
MaxAtoms == 2           \* a calibration graph has at most MaxAtoms atoms
TemplateSpecies == 16   \* jnp.array([16]): the species of the template graph's atom

\* graph.nodes.species of the calibration graphs
ObservedSpecies == {0, 2}
GraphChoices == UNION {[1..k -> ObservedSpecies] : k \in 0..MaxAtoms}
TrainGraphChoices ==
    {<<>>} \cup {<<tg>> : tg \in UNION {[1..k -> GraphChoices] : k \in 0..MaxGraphs}}

\* the values of num_species
NumSpeciesChoices == {1, 2, 3, TemplateSpecies + 1}

\* a dict from species to energy (a function on its keys), and dict.get(z, 0.0)
EnergiesDict == [z \in {0, 1} |-> BaseConfig.atomic_energies[z + 1]]
get(dict, z) == IF z \in DOMAIN dict THEN dict[z] ELSE 0

\* the arrays given as atomic_energies: zeros, or 3, 5, 7, ...
ArrayChoices ==
    {Array(l, LAMBDA z : 0) : l \in NumSpeciesChoices}
        \cup {Array(l, LAMBDA z : 2 * z + 1) : l \in NumSpeciesChoices}

\* the forms of the argument atomic_energies: None, a string, an array, a dict.
\* elementwise: whether the numpy of the build compares an array with a string
\* element by element (an array of False) or as a whole (False).
AtomicEnergiesForms ==
    {[kind |-> k, array |-> <<>>, elementwise |-> FALSE, dict |-> <<>>] :
        k \in {"None", "average", "isolated_atom", "zero", "unsupported"}}
        \cup {[kind |-> "ndarray", array |-> a, elementwise |-> e, dict |-> <<>>] :
                a \in ArrayChoices, e \in BOOLEAN}
        \cup {[kind |-> "dict", array |-> <<>>, elementwise |-> FALSE,
                dict |-> EnergiesDict]}

\* the argument atomic_energies_dict: None, an empty dict, a dict
AtomicEnergiesDictChoices == {<<>>, <<<<>>>>, <<EnergiesDict>>}

\* the arguments atomic_energies and atomic_energies_dict, and E0s, the dict that
\* data.compute_average_E0s returns when it is called
AtomicEnergiesChoices ==
    {[atomic_energies |-> ae, atomic_energies_dict |-> aed, E0s |-> EnergiesDict] :
        ae \in AtomicEnergiesForms, aed \in AtomicEnergiesDictChoices}

\* `if atomic_energies is None`: "average" without a non-empty atomic_energies_dict,
\* else "isolated_atom"
model_resolve_none(given) ==
    IF given.atomic_energies.kind # "None" THEN given.atomic_energies.kind
    ELSE IF given.atomic_energies_dict = <<>>
            \/ DOMAIN given.atomic_energies_dict[1] = {}
    THEN "average"
    ELSE "isolated_atom"

RECURSIVE SortedSeq(_)
\* sorted(list(S))
SortedSeq(S) ==
    IF S = {} THEN <<>>
    ELSE LET m == CHOOSE x \in S : \A y \in S : x <= y
         IN <<m>> \o SortedSeq(S \ {m})

\* data.get_atomic_number_table_from_zs(z for graph in graphs for z in species):
\* the species observed, each once, in increasing order
get_atomic_number_table_from_zs(graphs) ==
    SortedSeq(UNION {{graphs[g][n] : n \in 1..Len(graphs[g])} : g \in 1..Len(graphs)})

\* if train_graphs is None: z_table = None, else the table of the observed species
model_z_table(tg) ==
    IF tg = <<>> THEN <<>> ELSE <<get_atomic_number_table_from_zs(tg[1])>>

\* the chain of tests on atomic_energies: the array it resolves to, or the error.
\* An array of two or more entries compared element by element has no truth value;
\* None has no get.
model_atomic_energies(given, ns) ==
    LET ae == given.atomic_energies
        kind == model_resolve_none(given)
    IN IF kind = "ndarray" /\ ae.elementwise /\ Len(ae.array) >= 2
       THEN [error |-> <<[type |-> "ValueError", at |-> "atomic_energies"]>>,
             array |-> <<>>]
       ELSE IF kind = "average"
       THEN [error |-> <<>>, array |-> Array(ns, LAMBDA z : get(given.E0s, z - 1))]
       ELSE IF kind = "isolated_atom"
       THEN (IF given.atomic_energies_dict = <<>> /\ ns > 0
             THEN [error |-> <<[type |-> "AttributeError",
                                at |-> "atomic_energies_dict"]>>,
                   array |-> <<>>]
             ELSE [error |-> <<>>,
                   array |-> Array(ns, LAMBDA z :
                                 get(given.atomic_energies_dict[1], z - 1))])
       ELSE IF kind = "zero"
       THEN [error |-> <<>>, array |-> Array(ns, LAMBDA z : 0)]
       ELSE IF kind = "ndarray"
       THEN (IF Len(ae.array) # ns
             THEN [error |-> <<[type |-> "ValueError", at |-> "atomic_energies"]>>,
                   array |-> <<>>]
             ELSE [error |-> <<>>, array |-> ae.array])
       ELSE IF kind = "dict"
       THEN [error |-> <<>>, array |-> Array(ns, LAMBDA z : get(ae.dict, z - 1))]
       ELSE [error |-> <<[type |-> "ValueError", at |-> "atomic_energies"]>>,
             array |-> <<>>]

\* max(zs) of a sorted table
max(zs) == zs[Len(zs)]

\* "check that num_species is consistent with the dataset": TRUE when it raises.
\* max() of an empty sequence raises ValueError.
model_check_raises(zt, tg, ns) ==
    IF zt = <<>>
    THEN /\ tg # <<>>
         /\ \E g \in 1..Len(tg[1]) : ~ (\A n \in 1..Len(tg[1][g]) : tg[1][g][n] < ns)
    ELSE \/ zt[1] = <<>>
         \/ max(zt[1]) >= ns

\* the template graph given to model_.init: one atom of species 16, one edge from
\* the atom to itself, a zero vector
model_template ==
    [vectors |-> <<Plain(0, 1)>>, node_specie |-> <<TemplateSpecies>>,
     senders |-> <<1>>, receivers |-> <<1>>]

InitModel ==
    /\ pc = "model"
    /\ cfg \in {[BaseConfig EXCEPT !.num_species = ns] : ns \in NumSpeciesChoices}
    /\ train_graphs \in TrainGraphChoices
    /\ atomic_energies_ \in AtomicEnergiesChoices
    /\ model_resolve_none(atomic_energies_) = "average" => train_graphs # <<>>
    /\ model_resolve_none(atomic_energies_) = "isolated_atom"
            => atomic_energies_.atomic_energies_dict # <<>>
    /\ initialize_seed \in {<<>>, <<0>>}
    /\ z_table = <<>>
    /\ error = <<>>
    /\ params = <<>>
    /\ inp = NoInput
    /\ num_features = 0
    /\ i = 0
    /\ poly_order = 0
    /\ node_feats = <<>>
    /\ outputs = <<>>
    /\ calls = <<>>
    /\ result = <<>>
    /\ batch = NoBatch
    /\ out = <<>>
    /\ locals = <<>>
    /\ gin = <<>>
    /\ ref = <<>>
    /\ how = "none"
    /\ TrainIdle
    /\ ArgvIdle

\* gin_model.model, lines 101-165: z_table and atomic_energies
ModelPrepare ==
    /\ pc = "model"
    /\ z_table' = model_z_table(train_graphs)
    /\ \E r \in {model_atomic_energies(atomic_energies_, cfg.num_species)} :
        /\ error' = r.error
        /\ atomic_energies_' = IF r.error = <<>> THEN r.array ELSE atomic_energies_
        /\ pc' = IF r.error = <<>> THEN "model_check" ELSE "model_raised"
    /\ UNCHANGED <<macexVars, train_graphs, initialize_seed, params, trainVars, argvVars>>

\* gin_model.model, lines 167-179: the check of num_species
ModelCheck ==
    /\ pc = "model_check"
    /\ IF model_check_raises(z_table, train_graphs, cfg.num_species)
       THEN /\ error' = <<[type |-> "ValueError", at |-> "num_species"]>>
            /\ pc' = "model_raised"
       ELSE /\ error' = error
            /\ pc' = "model_init"
    /\ UNCHANGED <<macexVars, train_graphs, z_table, atomic_energies_, initialize_seed,
                   params, trainVars, argvVars>>

\* gin_model.model, lines 244-255: model_.init on the template graph, which builds
\* modules.MACE and calls it with four arrays; the parameters are returned
ModelInit ==
    /\ pc = "model_init"
    /\ IF initialize_seed # <<>>
       THEN /\ inp' = model_template
            /\ \E cls \in ModuleClasses, kwargs \in KwargsChoices :
                \E raises \in {model_mace_raises(cls, kwargs) \/ cls = "MACE"} :
                    /\ error' = IF raises
                                 THEN <<[type |-> "TypeError", at |-> "modules.MACE"]>>
                                 ELSE error
                    /\ params' = IF raises THEN <<>> ELSE <<"initialized">>
                    /\ pc' = IF raises THEN "model_raised" ELSE "model_returned"
       ELSE /\ inp' = inp
            /\ error' = error
            /\ params' = <<>>
            /\ pc' = "model_returned"
    /\ UNCHANGED <<cfg, num_features, i, poly_order, node_feats, outputs, calls, result,
                   batch, out, locals, gin, ref, how, train_graphs, z_table,
                   atomic_energies_, initialize_seed, trainVars, argvVars>>

NextModel == ModelPrepare \/ ModelCheck \/ ModelInit

SpecModel == InitModel /\ [][NextModel]_vars

-----------------------------------------------------------------------------
(* Properties of gin_model.model *)

\* the species indices of the calibration graphs
Observed ==
    IF train_graphs = <<>> THEN {}
    ELSE UNION {{train_graphs[1][g][n] : n \in 1..Len(train_graphs[1][g])} :
                   g \in 1..Len(train_graphs[1])}

ModelEnded == pc \in {"model_raised", "model_returned"}

\* C11: gin_model.model raises a ValueError and returns no model whenever the
\* calibration graphs hold a species index >= num_species; when every observed index
\* is below num_species the check of num_species does not raise.
C11_RaisesIffSpeciesOutOfRange ==
    ModelEnded =>
        /\ (\E z \in Observed : z >= cfg.num_species)
              => (pc = "model_raised" /\ error # <<>> /\ error[1].type = "ValueError"
                  /\ params = <<>>)
        /\ (\A z \in Observed : z < cfg.num_species)
              => ~ (error # <<>> /\ error[1].at = "num_species")

\* C13: every species index given to the forward computation is in
\* 0..num_species-1, the template graph of the initialization included.
C13_SpeciesBelowNumSpecies ==
    \A n \in 1..Len(inp.node_specie) :
        0 <= inp.node_specie[n] /\ inp.node_specie[n] < cfg.num_species

-----------------------------------------------------------------------------
(* gin_functions.reload and gin_functions.train                                *)

MaxEpochs == 3          \* max_num_epochs ranges over 0..MaxEpochs
MaxLoss == 1            \* a validation loss is one of 0..MaxLoss
MaxPatience == 2        \* patience ranges over 0..MaxPatience

\* np.inf: above every loss
inf == MaxLoss + 1

\* the parameter trees: their structure, and where the values come from
TreeStructures == {"A", "B"}
tree_structure(p) == p.tree

\* reload(params, path): new_params is the second object pickled in the file
reload(p, f, new_params) ==
    IF f # <<>>
    THEN [params |-> new_params,
          warning |-> tree_structure(p) # tree_structure(new_params)]
    ELSE [params |-> p, warning |-> FALSE]

\* a loader: None is <<>>, a loader of n batches is <<n>>
Loaders == {<<>>, <<0>>, <<1>>}
len(loader) == loader[1]

TrainArguments ==
    [max_num_epochs : 0..MaxEpochs, patience : 0..MaxPatience,
     eval_train : BOOLEAN, eval_test : BOOLEAN, eval_interval : {1, 2},
     valid_loader : Loaders, test_loader : Loaders]

\* last_epoch = epoch == max_num_epochs
train_last_epoch(k, ep) == ep = k.max_num_epochs

\* if epoch % eval_interval == 0 or last_epoch
train_evaluates(k, ep) == ep % k.eval_interval = 0 \/ train_last_epoch(k, ep)

\* if valid_loader is not None and len(valid_loader) > 0
train_validates(k) == k.valid_loader # <<>> /\ len(k.valid_loader) > 0

Event(o, ep, l) == [op |-> o, epoch |-> ep, loss |-> l]

\* mutant: the training set evaluated only when eval_train asks for it
train_events_eval_train_only(k, ep, loss_) ==
    IF ~ train_evaluates(k, ep) THEN <<>>
    ELSE <<Event("checkpoint", ep, <<>>)>>
         \o (IF k.eval_train THEN <<Event("eval_train", ep, <<>>)>> ELSE <<>>)
         \o (IF (k.eval_test \/ train_last_epoch(k, ep))
                /\ k.test_loader # <<>> /\ len(k.test_loader) > 0
             THEN <<Event("eval_test", ep, <<>>)>> ELSE <<>>)
         \o (IF train_validates(k) THEN <<Event("eval_valid", ep, <<loss_>>)>> ELSE <<>>)

\* what the body of the loop writes and evaluates at epoch ep, in order: the
\* checkpoint, the training set, the test set, the validation set (with its loss)
train_events(k, ep, loss_) ==
    IF ~ train_evaluates(k, ep) THEN <<>>
    ELSE <<Event("checkpoint", ep, <<>>)>>
         \o (IF k.eval_train \/ train_last_epoch(k, ep)
             THEN <<Event("eval_train", ep, <<>>)>> ELSE <<>>)
         \o (IF (k.eval_test \/ train_last_epoch(k, ep))
                /\ k.test_loader # <<>> /\ len(k.test_loader) > 0
             THEN <<Event("eval_test", ep, <<>>)>> ELSE <<>>)
         \o (IF train_validates(k) THEN <<Event("eval_valid", ep, <<loss_>>)>> ELSE <<>>)

\* mutant: a loss equal to the lowest counts as an improvement
train_no_improvement_strict(loss_, lowest) == loss_ > lowest

\* if loss_ >= lowest_loss
train_no_improvement(loss_, lowest) == loss_ >= lowest

\* the early-stopping bookkeeping of one evaluation of the validation set
train_patience(k, lowest, counter, loss_) ==
    IF train_no_improvement(loss_, lowest)
    THEN [lowest_loss |-> lowest, patience_counter |-> counter + 1,
          break |-> counter + 1 >= k.patience]
    ELSE [lowest_loss |-> loss_, patience_counter |-> 0, break |-> FALSE]

InitTrain ==
    /\ pc = "reload"
    /\ params \in [tree : TreeStructures, from : {"init"}]
    /\ path \in {<<>>, <<"checkpoint.pkl">>}
    /\ stored \in [tree : TreeStructures, from : {"file"}]
    /\ kw \in TrainArguments
    /\ epoch = 0 - 1
    /\ lowest_loss = inf
    /\ patience_counter = 0
    /\ log = <<>>
    /\ cfg = BaseConfig
    /\ inp = NoInput
    /\ num_features = 0
    /\ i = 0
    /\ poly_order = 0
    /\ node_feats = <<>>
    /\ outputs = <<>>
    /\ calls = <<>>
    /\ result = <<>>
    /\ batch = NoBatch
    /\ out = <<>>
    /\ locals = <<>>
    /\ gin = <<>>
    /\ ref = <<>>
    /\ how = "none"
    /\ ModelIdle
    /\ ArgvIdle

\* params = reload(params)
Reload ==
    /\ pc = "reload"
    /\ \E r \in {reload(params, path, stored)} :
        /\ params' = r.params
        /\ log' = <<[op |-> "reload", given |-> params, warning |-> r.warning]>>
    /\ pc' = "train"
    /\ UNCHANGED <<macexVars, modelVars, argvVars, path, stored, kw, epoch,
                   lowest_loss, patience_counter>>

\* one iteration of the loop of train: the generator yields the next epoch, the
\* body runs to its end or to a break
TrainEpoch ==
    /\ pc = "train"
    /\ epoch' = epoch + 1
    /\ \E loss_ \in 0..MaxLoss :
        \E b \in {IF train_evaluates(kw, epoch') /\ train_validates(kw)
                  THEN train_patience(kw, lowest_loss, patience_counter, loss_)
                  ELSE [lowest_loss |-> lowest_loss,
                        patience_counter |-> patience_counter, break |-> FALSE]} :
            /\ log' = log \o train_events(kw, epoch', loss_)
            /\ lowest_loss' = b.lowest_loss
            /\ patience_counter' = b.patience_counter
            /\ pc' = IF b.break THEN "train_stopped"
                     ELSE IF train_last_epoch(kw, epoch') THEN "train_complete"
                     ELSE "train"
    /\ UNCHANGED <<macexVars, modelVars, argvVars, params, path, stored, kw>>

NextTrain == Reload \/ TrainEpoch

SpecTrain == InitTrain /\ [][NextTrain]_vars

-----------------------------------------------------------------------------
(* Properties of reload and train *)

Reloaded == pc # "reload"

\* the params reload was given
GivenParams == log[1].given

\* C12: parameters loaded from path whose tree structure differs from that of params
\* are not used: the result is then params (or an error), never the loaded
\* parameters; with path None the result is params, and with matching structures it
\* is the loaded parameters.
C12_IncompatibleNotUsed ==
    Reloaded =>
        /\ path = <<>> => params = GivenParams
        /\ (path # <<>> /\ tree_structure(stored) = tree_structure(GivenParams))
              => params = stored
        /\ (path # <<>> /\ tree_structure(stored) # tree_structure(GivenParams))
              => (params = GivenParams \/ error # <<>>)

\* the losses of the evaluations of the validation set so far, in order
ValidLosses ==
    LET IsValid(ev) == ev.op = "eval_valid"
        evs == SelectSeq(log, IsValid)
    IN [j \in 1..Len(evs) |-> evs[j].loss[1]]

\* the lowest of inf and the first m losses
RECURSIVE LowestOf(_, _)
LowestOf(L, m) ==
    IF m = 0 THEN inf
    ELSE IF L[m] < LowestOf(L, m - 1) THEN L[m] ELSE LowestOf(L, m - 1)

\* evaluation j did not improve: its loss was not strictly below the lowest before it
NotImproving(L, j) == ~ (L[j] < LowestOf(L, j - 1))

\* the number of most recent evaluations in a row that did not improve
RecentNotImproving(L) ==
    CHOOSE r \in 0..Len(L) :
        /\ \A j \in (Len(L) - r + 1)..Len(L) : NotImproving(L, j)
        /\ (r < Len(L) => ~ NotImproving(L, Len(L) - r))

\* C15: with a non-empty validation loader, lowest_loss is the minimum validation
\* loss seen so far and never increases; patience_counter is the number of most
\* recent evaluations in a row whose loss was not strictly below lowest_loss, so
\* every strict improvement resets it to 0; training stops early exactly at the
\* first evaluation that brings patience_counter to patience; without a validation
\* loader, or with an empty one, it never stops early.
C15_EarlyStopping ==
    [][/\ lowest_loss' <= lowest_loss
       /\ Reloaded' =>
            /\ lowest_loss' = LowestOf(ValidLosses', Len(ValidLosses'))
            /\ patience_counter' = RecentNotImproving(ValidLosses')
            /\ (pc' = "train_stopped") =
                 (/\ Len(ValidLosses') > Len(ValidLosses)
                  /\ patience_counter' > 0
                  /\ patience_counter' >= kw.patience)
            /\ (~ train_validates(kw) => pc' # "train_stopped")]_vars

\* patience 2: an improvement to 1, an improvement to 0 that resets the counter,
\* then two evaluations at 0 that stop the training
C15_Witness ==
    /\ pc = "train_stopped"
    /\ kw.patience = 2
    /\ ValidLosses = <<1, 1, 0, 0>> \/ ValidLosses = <<1, 0, 0, 0>>
    /\ lowest_loss = 0 /\ patience_counter = 2

\* what was written and evaluated at epoch e, in order
OpsAt(e) ==
    LET At(ev) == ev.op # "reload" /\ ev.epoch = e
        evs == SelectSeq(log, At)
    IN [j \in 1..Len(evs) |-> evs[j].op]

Contains(ops, o) == \E j \in 1..Len(ops) : ops[j] = o

\* C16: train ends no later than the epoch max_num_epochs; at every multiple of
\* eval_interval and at the last epoch the checkpoint is written before anything is
\* evaluated; at the last epoch the training set is evaluated whatever eval_train
\* is and the test set whatever eval_test is when the test loader is not empty; at
\* every other epoch nothing is written or evaluated.
C16_TrainTermination ==
    Reloaded =>
        /\ epoch <= kw.max_num_epochs
        /\ (epoch = kw.max_num_epochs => pc # "train")
        /\ (pc = "train_complete" => epoch = kw.max_num_epochs)
        /\ \A e \in 0..epoch :
            IF e % kw.eval_interval = 0 \/ e = kw.max_num_epochs
            THEN /\ OpsAt(e) # <<>>
                 /\ OpsAt(e)[1] = "checkpoint"
                 /\ \A j \in 2..Len(OpsAt(e)) : OpsAt(e)[j] # "checkpoint"
                 /\ (e = kw.max_num_epochs =>
                        /\ Contains(OpsAt(e), "eval_train")
                        /\ Contains(OpsAt(e), "eval_test")
                             = (kw.test_loader # <<>> /\ len(kw.test_loader) > 0))
                 /\ (e # kw.max_num_epochs =>
                        /\ Contains(OpsAt(e), "eval_train") = kw.eval_train
                        /\ Contains(OpsAt(e), "eval_test")
                             = (/\ kw.eval_test /\ kw.test_loader # <<>>
                                /\ len(kw.test_loader) > 0))
            ELSE OpsAt(e) = <<>>

\* eval_interval 2 and max_num_epochs 3, eval_train and eval_test off: nothing at
\* epoch 1, everything at epoch 3
C16_Witness ==
    /\ pc = "train_complete"
    /\ kw.eval_interval = 2 /\ kw.max_num_epochs = 3
    /\ ~ kw.eval_train /\ ~ kw.eval_test
    /\ OpsAt(1) = <<>>
    /\ OpsAt(2) = <<"checkpoint">>
    /\ OpsAt(3) = <<"checkpoint", "eval_train", "eval_test">>

-----------------------------------------------------------------------------
(* gin_functions.parse_argv.  A string is the sequence of the code points of    *)
(* its characters, which are below 256: "--k=1" is <<45, 45, 107, 61, 49>>.    *)

MaxArgs == 3            \* the command line has at most MaxArgs arguments after argv[0]

\* c.isalpha(): A-Z, a-z and the letters of Latin-1
isalpha(c) ==
    c \in (65..90) \cup (97..122) \cup {170, 181, 186} \cup (192..214)
            \cup (216..246) \cup (248..255)

\* c.isspace(): tab, newline, vertical tab, form feed, carriage return, the four
\* separators, the blank, next line, no-break space
isspace(c) == c \in {9, 10, 11, 12, 13, 28, 29, 30, 31, 32, 133, 160}

\* the characters " and '
Quotes == {34, 39}

\* str.startswith, str.endswith, `c in s`
startswith(str, prefix) ==
    Len(str) >= Len(prefix) /\ SubSeq(str, 1, Len(prefix)) = prefix
endswith(str, suffix) ==
    Len(str) >= Len(suffix)
        /\ SubSeq(str, Len(str) - Len(suffix) + 1, Len(str)) = suffix
contains(str, c) == \E j \in 1..Len(str) : str[j] = c

\* str[k:] with k counted from 0
from(str, k) == SubSeq(str, k + 1, Len(str))

RECURSIVE split(_, _)
\* str.split(c): the pieces between the occurrences of c
split(str, c) ==
    IF ~ contains(str, c) THEN <<str>>
    ELSE LET j == CHOOSE x \in 1..Len(str) :
                      str[x] = c /\ \A y \in 1..(x - 1) : str[y] # c
         IN <<SubSeq(str, 1, j - 1)>> \o split(SubSeq(str, j + 1, Len(str)), c)

RECURSIVE strip(_)
\* str.strip(): without the whitespace at either end
strip(str) ==
    IF str # <<>> /\ isspace(str[1]) THEN strip(Tail(str))
    ELSE IF str # <<>> /\ isspace(str[Len(str)])
    THEN strip(SubSeq(str, 1, Len(str) - 1))
    ELSE str

\* any(c.isalpha() for c in value)
any_isalpha(value) == \E j \in 1..Len(value) : isalpha(value[j])

\* "True", "False", "None"
True == <<84, 114, 117, 101>>
False == <<70, 97, 108, 115, 101>>
None == <<78, 111, 110, 101>>

\* f"{key} = {value}" and f'{key} = "{value}"'
verbatim(key, value) == key \o <<32, 61, 32>> \o value
quoted(key, value) == key \o <<32, 61, 32, 34>> \o value \o <<34>>

\* gin_bind_parameter(key, value): the texts given to gin.parse_config, in order,
\* or the exception of value[0] on an empty value
gin_bind_parameter(key, value) ==
    LET v == strip(value)
    IN IF v = <<>> THEN [error |-> <<"IndexError">>, texts |-> <<>>]
       ELSE [error |-> <<>>,
             texts |->
                (IF v[1] = v[Len(v)] /\ v[1] \in Quotes
                 THEN <<verbatim(key, v)>> ELSE <<>>)
                \o (IF v[1] = 64 THEN <<verbatim(key, v)>> ELSE <<>>)      \* "@"
                \o (IF v \in {True, False, None} THEN <<verbatim(key, v)>> ELSE <<>>)
                \o (IF any_isalpha(v) THEN <<quoted(key, v)>> ELSE <<verbatim(key, v)>>)]

\* the calls of gin.parse_config made for the argument at index p
Bound(r, key, value, p) ==
    Array(Len(r.texts), LAMBDA j :
        [op |-> "parse_config", key |-> key, value |-> value, text |-> r.texts[j],
         arg |-> p])

\* the body of `for arg in argv[1:]` for the argument at index p: the calls made to
\* gin, the key left waiting, the exception raised
parse_arg(arg, waiting, p) ==
    IF waiting = <<>>
    THEN IF endswith(arg, <<46, 103, 105, 110>>)            \* ".gin"
         THEN [calls |-> <<[op |-> "parse_config_file", key |-> <<>>, value |-> <<>>,
                            text |-> arg, arg |-> p]>>,
               only_the_key |-> <<>>, error |-> <<>>]
         ELSE IF startswith(arg, <<45, 45>>)                \* "--"
         THEN IF contains(arg, 61)                           \* "="
              THEN IF Len(split(from(arg, 2), 61)) # 2
                   THEN [calls |-> <<>>, only_the_key |-> <<>>,
                         error |-> <<"ValueError">>]
                   ELSE LET key == split(from(arg, 2), 61)[1]
                            value == split(from(arg, 2), 61)[2]
                            r == gin_bind_parameter(key, value)
                        IN [calls |-> Bound(r, key, value, p),
                            only_the_key |-> <<>>, error |-> r.error]
              ELSE [calls |-> <<>>, only_the_key |-> <<from(arg, 2)>>, error |-> <<>>]
         ELSE [calls |-> <<>>, only_the_key |-> <<>>, error |-> <<"ValueError">>]
    ELSE LET r == gin_bind_parameter(waiting[1], arg)
         IN [calls |-> Bound(r, waiting[1], arg, p),
             only_the_key |-> IF r.error # <<>> THEN waiting ELSE <<>>,
             error |-> r.error]

\* the arguments of the command lines: the key k; the values 1, b, @a, 'a', "1",
\* True, the empty string, 1=1 and 1 after a tab; the file c.gin; argv[0] is run
Key == <<107>>
ValueChoices ==
    {<<49>>, <<98>>, <<64, 97>>, <<39, 97, 39>>, <<34, 49, 34>>, True,
     <<>>, <<49, 61, 49>>, <<9, 49>>}
ArgChoices ==
    {<<99, 46, 103, 105, 110>>, <<45, 45>> \o Key}
        \cup {<<45, 45>> \o Key \o <<61>> \o v : v \in ValueChoices}
        \cup (ValueChoices \ {<<>>})
CommandLines ==
    {<<<<114, 117, 110>>>> \o args : args \in UNION {[1..k -> ArgChoices] : k \in 0..MaxArgs}}

InitArgv ==
    /\ pc = "argv"
    /\ argv \in CommandLines
    /\ pos = 2
    /\ only_the_key = <<>>
    /\ bindings = <<>>
    /\ error = <<>>
    /\ train_graphs = <<>> /\ z_table = <<>> /\ atomic_energies_ = <<>>
    /\ initialize_seed = <<>>
    /\ params = <<>>
    /\ cfg = BaseConfig
    /\ inp = NoInput
    /\ num_features = 0
    /\ i = 0
    /\ poly_order = 0
    /\ node_feats = <<>>
    /\ outputs = <<>>
    /\ calls = <<>>
    /\ result = <<>>
    /\ batch = NoBatch
    /\ out = <<>>
    /\ locals = <<>>
    /\ gin = <<>>
    /\ ref = <<>>
    /\ how = "none"
    /\ TrainIdle

\* one iteration of `for arg in argv[1:]`
ParseArg ==
    /\ pc = "argv"
    /\ pos <= Len(argv)
    /\ \E r \in {parse_arg(argv[pos], only_the_key, pos)} :
        /\ bindings' = bindings \o r.calls
        /\ only_the_key' = r.only_the_key
        /\ error' = r.error
        /\ pc' = IF r.error # <<>> THEN "argv_raised" ELSE "argv"
    /\ pos' = pos + 1
    /\ UNCHANGED <<macexVars, train_graphs, z_table, atomic_energies_, initialize_seed,
                   params, trainVars, argv>>

\* the loop is over: parse_argv returns
ParseReturn ==
    /\ pc = "argv"
    /\ pos > Len(argv)
    /\ pc' = "argv_returned"
    /\ UNCHANGED <<macexVars, modelVars, params, trainVars, argvVars>>

NextArgv == ParseArg \/ ParseReturn

SpecArgv == InitArgv /\ [][NextArgv]_vars

-----------------------------------------------------------------------------
(* Properties of parse_argv.                                                   *)

\* the calls made to gin for the argument at index p
CallsFor(p) == SelectSeq(bindings, LAMBDA b : b.arg = p)

\* the binding the shape of a value asks for
ShapedBinding(key, value) ==
    LET v == strip(value)
    IN IF \/ (v[1] = v[Len(v)] /\ v[1] \in Quotes)
          \/ v[1] = 64
          \/ v \in {True, False, None}
       THEN verbatim(key, v)
       ELSE IF any_isalpha(v) THEN quoted(key, v) ELSE verbatim(key, v)

\* C17: gin_bind_parameter makes exactly one gin binding per key/value pair, and
\* its form follows the shape of the value: a value in matching quotes, a value
\* starting with '@' and the literals True, False and None are bound verbatim; any
\* other value with a letter is bound as a quoted string; a value without letters
\* is bound verbatim.
C17_OneShapedBindingPerPair ==
    \A p \in 2..Len(argv) :
        LET made == CallsFor(p)
        IN (made # <<>> /\ made[1].op = "parse_config")
            => /\ Len(made) = 1
               /\ made[1].text = ShapedBinding(made[1].key, made[1].value)

\* whether a key waits for its value when the argument at index p is handled
RECURSIVE Waiting(_)
Waiting(p) ==
    IF p <= 2 THEN FALSE
    ELSE /\ ~ Waiting(p - 1)
         /\ ~ endswith(argv[p - 1], <<46, 103, 105, 110>>)
         /\ startswith(argv[p - 1], <<45, 45>>)
         /\ ~ contains(argv[p - 1], 61)

\* the argument at index p has been handled as the claim describes
HandledAsOneKind(p) ==
    LET arg == argv[p]
        made == CallsFor(p)
        raised == pos = p + 1 /\ pc = "argv_raised"
    IN IF Waiting(p)
       THEN \/ raised
            \/ /\ made # <<>>
               /\ \A j \in 1..Len(made) :
                    /\ made[j].op = "parse_config"
                    /\ made[j].key = from(argv[p - 1], 2)
                    /\ made[j].value = arg
       ELSE IF endswith(arg, <<46, 103, 105, 110>>)
       THEN made = <<[op |-> "parse_config_file", key |-> <<>>, value |-> <<>>,
                      text |-> arg, arg |-> p]>>
       ELSE IF startswith(arg, <<45, 45>>) /\ contains(arg, 61)
       THEN \/ raised
            \/ /\ made # <<>>
               /\ \A j \in 1..Len(made) :
                    /\ made[j].op = "parse_config"
                    /\ from(arg, 2) = made[j].key \o <<61>> \o made[j].value
       ELSE IF startswith(arg, <<45, 45>>)
       THEN made = <<>> /\ ~ raised /\ (pos = p + 1 => only_the_key = <<from(arg, 2)>>)
       ELSE raised /\ error = <<"ValueError">> /\ made = <<>>

\* C18: every argument after argv[0] is handled in order as exactly one of a .gin
\* file, a --key=value binding, a --key that waits, or the value of the waiting
\* key, and any other argument raises ValueError; the argument after a waiting
\* --key is consumed as its value whatever its form, after which no key waits; and
\* no --key is dropped silently, the last argument included.
C18_EveryArgumentHandled ==
    /\ \A p \in 2..(pos - 1) : HandledAsOneKind(p)
    /\ \A p \in pos..Len(argv) : CallsFor(p) = <<>>
    /\ (pc = "argv" /\ pos > 2 /\ Waiting(pos - 1)) => only_the_key = <<>>
    /\ pc = "argv_returned" => only_the_key = <<>>

====
